---- MODULE Spec2Model ----
(***************************************************************************)
(* Model of the iGotU GT-200 family protocol engine of pygotu              *)
(* (src/pygotu.py): the device session GT200Dev, the two flash purge       *)
(* procedures, the record scan all_records, the track assembler all_tracks *)
(* and the record decoder GTRecord.                                        *)
(*                                                                         *)
(* One command/response exchange of the session is one step.  The device   *)
(* is the environment: its flash content and its answers are inputs.       *)
(***************************************************************************)
EXTENDS Integers, Sequences, FiniteSets, TLC

(***************************************************************************)
(* Bounds.  The block counts of the model table are scaled down (the       *)
(* source has 0x080, 0x200, 0x100, 0x700 and 0x700); their order is kept.  *)
(***************************************************************************)
NBlocksGT100 == 2
NBlocksGT120 == 3
NBlocksGT200 == 4
NBlocksGT600 == 5
NBlocksGT900 == 5
\* number of non-zero answers to unk_write2 polls that the log records
MaxBusy == 1
\* number of records the device stores in the enumerated streams
MaxRecs == 3
\* records returned by one flash_read of the record scan (source: 0x1000 / 0x20)
RecsPerBlock == 2

(***************************************************************************)
(* Program constants                                                       *)
(***************************************************************************)
BlockSize == 4096
CheckCode == 49696
FlagInvalidBit == 32
FlagLog == 241
FlagHeartbeat == 245

\* MODELS: model code -> (name, number of blocks to erase, send 0x1d)
MODELS ==
  [c \in {19, 20, 21, 23} |->
     CASE c = 19 -> <<"GT-100", NBlocksGT100, FALSE>>
       [] c = 20 -> <<"GT-200", NBlocksGT200, FALSE>>
       [] c = 21 -> <<"GT-120", NBlocksGT120, FALSE>>
       [] c = 23 -> <<"GT-200e/GT-600", NBlocksGT600, TRUE>>]

\* model codes the device may report: the four known ones and an unknown one
ModelCodes == {19, 20, 21, 22, 23}
\* checkcodes the device may report: the expected one and another one
CheckCodes == {CheckCode, 0}

VARIABLES
  model_info,      \* GT200Dev.model_info
  pc,              \* position of the session in the running operation
  op,              \* the operation that runs or ran last
  n_blocks,        \* local of the purge procedures
  send_1d,         \* local should_send_unk_1d_command of purge_all_120
  purge_flag,      \* local of the purge procedures
  i,               \* loop variable of the purge scan
  flash,           \* device: block -> "FF" (first 16 bytes blank) or "DATA"
  budget,          \* device: non-zero poll answers still recorded in the log
  stuck,           \* device: it never answers a poll with b"\x00" again
  wire,            \* commands sent since the operation began, with answers
  stored,          \* device: the stored 32-byte records, in flash order
  num_rec_all,     \* all_records: total returned by count()
  num_rec_read,    \* all_records: records decoded so far
  rpos,            \* all_records: flash block read last
  buf,             \* all_records: records of the block read last
  bi,              \* all_records: index in buf of the next record (0-based)
  decoded,         \* indices given to GTRecord so far
  yielded,         \* records yielded by all_records so far
  idx,             \* all_tracks: index of the next track
  curlist,         \* all_tracks: pending waypoints
  tracks,          \* tracks yielded by all_tracks so far
  err,             \* the exception that ended the operation, or "none"
  rx,              \* transport: bytes received from the device and not read yet
  io,              \* transport calls since the reads of the previous command
  ret              \* value returned by the last session operation

purgeVars == <<n_blocks, send_1d, purge_flag, i, flash, budget, stuck>>
scanVars == <<stored, num_rec_all, num_rec_read, rpos, buf, bi, decoded,
              yielded, idx, curlist, tracks>>
frameVars == <<rx, io, ret>>
vars == <<model_info, pc, op, purgeVars, wire, scanVars, err, frameVars>>

(***************************************************************************)
(* Helpers                                                                 *)
(***************************************************************************)
\* list(range(hi, lo, -1)): hi, hi-1, ..., lo+1
RangeDown(hi, lo) == [k \in 1..(hi - lo) |-> hi + 1 - k]

Exchange(cmd, arg, resp) == [cmd |-> cmd, arg |-> arg, resp |-> resp]

\* the command sequence so far, restricted to one command
Only(cmd) == SelectSeq(wire, LAMBDA e : e.cmd = cmd)

BlockOf(e) == e.arg \div BlockSize

Blocks(cmd) == LET q == Only(cmd) IN [k \in 1..Len(q) |-> BlockOf(q[k])]


(***************************************************************************)
(* Pieces of the purge procedures                                          *)
(***************************************************************************)
\* the comparison of the scan turned around
IsBlank16_inverted(data) == data # "FF"

\* flash_read(pos=i*0x1000, size=0x10) != b"\xff" * 0x10, negated
IsBlank16(data) == data = "FF"

\* the poll made once instead of in a loop
PollDone_once(resp) == TRUE

\* an empty (None) answer taken for the acknowledgment
PollDone_none(resp) == resp \in {"ZERO", "NONE"}

\* a busy answer taken for the acknowledgment
PollDone_busy(resp) == resp \in {"ZERO", "BUSY"}

\* unk_write2(0x01) != b"\x00", negated: the busy-wait loop is left
PollDone(resp) == resp = "ZERO"

\* first value of range(n_blocks, 0, -1)
ScanStart120(n) == n

ScanStart900_full(n) == n

\* first value of range(n_blocks-1, 0, -1)
ScanStart900(n) == n - 1

\* the stop value of range taken as inclusive
InRange_inclusive(j) == j >= 0

\* the loops run while the loop variable is above the stop value 0 of range
InRange(j) == j > 0

\* flash_read, flash_write_purge: pos = i * 0x1000
FlashPos(j) == j * BlockSize

\* opcode of the unk_purge1 command sent at a finalization position
PurgeOpcode(p) ==
  CASE p \in {"p120_a1d", "p120_b1d"} -> 29
    [] p \in {"p120_a1e", "p120_b1e"} -> 30
    [] p \in {"p120_a1f", "p120_b1f"} -> 31

\* the closing group sent without the model's extra command
AfterLoop120_no1d(flag, s1d) ==
  IF flag THEN (IF s1d THEN "p120_a1d" ELSE "p120_a1e") ELSE "p120_b1e"

\* purge_all_120 after the for loop, lines 173-184
AfterLoop120(flag, s1d) ==
  IF flag THEN (IF s1d THEN "p120_a1d" ELSE "p120_a1e")
          ELSE (IF s1d THEN "p120_b1d" ELSE "p120_b1e")

\* purge_all_120: position after an iteration ends (or continues) with next value j
LoopNext120(j, flag, s1d) ==
  IF InRange(j) THEN "p120_top" ELSE AfterLoop120(flag, s1d)

\* unk_write1 sent for the first erased block only
LoopNext900_nowrite1(j, flag) ==
  IF InRange(j) THEN (IF flag THEN "g900_erase" ELSE "g900_top") ELSE "done"

\* purge_all_gt900: position when the loop goes on to value j
LoopNext900(j, flag) ==
  IF InRange(j) THEN (IF flag THEN "g900_write1" ELSE "g900_top") ELSE "done"

\* the session is inside a busy-wait loop on unk_write2(1)
Waiting == pc \in {"p120_wait", "g900_wait"} \/ (pc = "p120_top" /\ purge_flag)

\* answers of the device to an unk_write2 poll
PollAnswers ==
  IF stuck THEN {"BUSY", "NONE"}
  ELSE {"ZERO", "ERR"} \cup (IF budget > 0 THEN {"BUSY", "NONE"} ELSE {})

Send(cmd, arg, resp) == wire' = Append(wire, Exchange(cmd, arg, resp))

\* read_resp raises when the header byte is not 0x93
Outcome(resp, nextpc) ==
  /\ pc' = IF resp = "ERR" THEN "failed" ELSE nextpc
  /\ err' = IF resp = "ERR" THEN "ProtocolError" ELSE err

\* while self.unk_write2(0x01) != b"\x00": pass
BusyWait(donepc) ==
  \E resp \in PollAnswers :
    /\ IF resp \in {"BUSY", "NONE"}
       THEN IF budget > 0
            THEN Send("unk_write2", 1, resp) /\ budget' = budget - 1
            ELSE UNCHANGED <<wire, budget>>
       ELSE Send("unk_write2", 1, resp) /\ UNCHANGED budget
    /\ Outcome(resp, IF PollDone(resp) THEN donepc ELSE pc)

(***************************************************************************)
(* GT200Dev.model                                                          *)
(***************************************************************************)
Model ==
  /\ pc = "idle"
  /\ \E checkcode \in CheckCodes, model_code \in ModelCodes :
       /\ op' = "model"
       /\ wire' = <<Exchange("model", 0, "OK")>>
       /\ IF checkcode # CheckCode
          THEN UNCHANGED <<model_info, pc, err>>
          ELSE IF model_code \notin DOMAIN MODELS
               THEN /\ pc' = "failed"
                    /\ err' = "UnknownModel"
                    /\ UNCHANGED model_info
               ELSE /\ model_info' = MODELS[model_code]
                    /\ UNCHANGED <<pc, err>>
  /\ UNCHANGED <<purgeVars, scanVars>>
  /\ UNCHANGED frameVars

(***************************************************************************)
(* GT200Dev.purge_all_120                                                  *)
(***************************************************************************)
PurgeAll120Start ==
  /\ pc = "idle"
  /\ op' = "purge_all_120"
  /\ purge_flag' = FALSE
  /\ n_blocks' = model_info[2]
  /\ send_1d' = model_info[3]
  /\ i' = ScanStart120(n_blocks')
  /\ flash' \in [1..n_blocks' -> {"FF", "DATA"}]
  /\ wire' = <<>>
  /\ pc' = LoopNext120(i', FALSE, send_1d')
  /\ UNCHANGED <<model_info, budget, stuck, scanVars, err>>
  /\ UNCHANGED frameVars

P120_Scan ==
  /\ pc = "p120_top" /\ ~purge_flag
  /\ \E resp \in {flash[i], "ERR"} :
       /\ Send("flash_read", FlashPos(i), resp)
       /\ IF resp = "ERR"
          THEN UNCHANGED <<purge_flag, i>> /\ Outcome(resp, pc)
          ELSE IF ~IsBlank16(resp)
               THEN /\ purge_flag' = TRUE
                    /\ UNCHANGED i
                    /\ Outcome(resp, "p120_write1")
               ELSE /\ i' = i - 1
                    /\ UNCHANGED purge_flag
                    /\ Outcome(resp, LoopNext120(i - 1, purge_flag, send_1d))
  /\ UNCHANGED <<model_info, op, n_blocks, send_1d, flash, budget, stuck, scanVars>>
  /\ UNCHANGED frameVars

P120_Wait ==
  /\ pc = "p120_top" /\ purge_flag
  /\ BusyWait("p120_write1")
  /\ UNCHANGED <<model_info, op, n_blocks, send_1d, purge_flag, i, flash, stuck, scanVars>>
  /\ UNCHANGED frameVars

P120_Write1 ==
  /\ pc = "p120_write1"
  /\ \E resp \in {"OK", "ERR"} :
       /\ Send("unk_write1", 0, resp)
       /\ Outcome(resp, "p120_erase")
  /\ UNCHANGED <<model_info, op, purgeVars, scanVars>>
  /\ UNCHANGED frameVars

P120_Erase ==
  /\ pc = "p120_erase"
  /\ \E resp \in {"OK", "ERR"} :
       /\ Send("flash_write_purge", FlashPos(i), resp)
       /\ i' = IF resp = "ERR" THEN i ELSE i - 1
       /\ Outcome(resp, LoopNext120(i - 1, purge_flag, send_1d))
  /\ UNCHANGED <<model_info, op, n_blocks, send_1d, purge_flag, flash, budget, stuck, scanVars>>
  /\ UNCHANGED frameVars

\* lines 173-177: the unk_purge1 commands sent when purge_flag is set
P120_Group1 ==
  /\ pc \in {"p120_a1d", "p120_a1e", "p120_a1f"}
  /\ \E resp \in {"OK", "ERR"} :
       /\ Send("unk_purge1", PurgeOpcode(pc), resp)
       /\ Outcome(resp, CASE pc = "p120_a1d" -> "p120_a1e"
                          [] pc = "p120_a1e" -> "p120_a1f"
                          [] pc = "p120_a1f" -> "p120_wait")
  /\ UNCHANGED <<model_info, op, purgeVars, scanVars>>
  /\ UNCHANGED frameVars

\* lines 178-179
P120_FinalWait ==
  /\ pc = "p120_wait"
  /\ BusyWait(AfterLoop120(FALSE, send_1d))
  /\ UNCHANGED <<model_info, op, n_blocks, send_1d, purge_flag, i, flash, stuck, scanVars>>
  /\ UNCHANGED frameVars

\* lines 181-184
P120_Group2 ==
  /\ pc \in {"p120_b1d", "p120_b1e", "p120_b1f"}
  /\ \E resp \in {"OK", "ERR"} :
       /\ Send("unk_purge1", PurgeOpcode(pc), resp)
       /\ Outcome(resp, CASE pc = "p120_b1d" -> "p120_b1e"
                          [] pc = "p120_b1e" -> "p120_b1f"
                          [] pc = "p120_b1f" -> "done")
  /\ UNCHANGED <<model_info, op, purgeVars, scanVars>>
  /\ UNCHANGED frameVars

(***************************************************************************)
(* GT200Dev.purge_all_gt900                                                *)
(***************************************************************************)
PurgeAllGt900Start ==
  /\ pc = "idle"
  /\ op' = "purge_all_gt900"
  /\ purge_flag' = FALSE
  /\ n_blocks' = NBlocksGT900
  /\ i' = ScanStart900(n_blocks')
  /\ flash' \in [1..n_blocks' -> {"FF", "DATA"}]
  /\ wire' = <<>>
  /\ pc' = LoopNext900(i', FALSE)
  /\ UNCHANGED <<model_info, send_1d, budget, stuck, scanVars, err>>
  /\ UNCHANGED frameVars

G900_Scan ==
  /\ pc = "g900_top" /\ ~purge_flag
  /\ \E resp \in {flash[i], "ERR"} :
       /\ Send("flash_read", FlashPos(i), resp)
       /\ IF resp = "ERR"
          THEN UNCHANGED <<purge_flag, i>> /\ Outcome(resp, pc)
          ELSE IF ~IsBlank16(resp)
               THEN /\ purge_flag' = TRUE
                    /\ UNCHANGED i
                    /\ Outcome(resp, "g900_write1")
               ELSE /\ i' = i - 1
                    /\ UNCHANGED purge_flag
                    /\ Outcome(resp, LoopNext900(i - 1, purge_flag))
  /\ UNCHANGED <<model_info, op, n_blocks, send_1d, flash, budget, stuck, scanVars>>
  /\ UNCHANGED frameVars

G900_Write1 ==
  /\ pc = "g900_write1"
  /\ \E resp \in {"OK", "ERR"} :
       /\ Send("unk_write1", 0, resp)
       /\ Outcome(resp, "g900_erase")
  /\ UNCHANGED <<model_info, op, purgeVars, scanVars>>
  /\ UNCHANGED frameVars

G900_Erase ==
  /\ pc = "g900_erase"
  /\ \E resp \in {"OK", "ERR"} :
       /\ Send("flash_write_purge", FlashPos(i), resp)
       /\ Outcome(resp, "g900_wait")
  /\ UNCHANGED <<model_info, op, purgeVars, scanVars>>
  /\ UNCHANGED frameVars

G900_Wait ==
  /\ pc = "g900_wait"
  /\ BusyWait(LoopNext900(i - 1, purge_flag))
  /\ i' = IF pc' \in {"g900_wait", "failed"} THEN i ELSE i - 1
  /\ UNCHANGED <<model_info, op, n_blocks, send_1d, purge_flag, flash, stuck, scanVars>>
  /\ UNCHANGED frameVars

\* the device stops answering polls with b"\x00" (it stays busy for ever)
DeviceHang ==
  /\ Waiting /\ ~stuck
  /\ stuck' = TRUE
  /\ UNCHANGED <<model_info, pc, op, n_blocks, send_1d, purge_flag, i, flash,
                 budget, wire, scanVars, err>>
  /\ UNCHANGED frameVars


(***************************************************************************)
(* GTRecord: the decoder of one 32-byte record.  A raw record is given by  *)
(* the fields the decoder's outcome depends on: the flag byte, the byte    *)
(* ym (year offset and month), the day bits of dhm, the raw latitude and   *)
(* longitude, and the text of a log record.                                *)
(***************************************************************************)
current_year == 2026

get_year(year_offset) ==
  LET quotient == (current_year - 2000) \div 16
      year == 2000 + 16 * quotient + year_offset
  IN  IF year > current_year THEN year - 16 ELSE year

DaysInMonth(year, month) ==
  CASE month \in {1, 3, 5, 7, 8, 10, 12} -> 31
    [] month \in {4, 6, 9, 11} -> 30
    [] month = 2 -> IF year % 4 = 0 /\ (year % 100 # 0 \/ year % 400 = 0) THEN 29 ELSE 28
    [] OTHER -> 0

\* datetime.datetime(year, month, day, ...) does not raise ValueError
DateOk(s) ==
  LET year == get_year(s.ym \div 16)
      month == (s.ym % 16) % 13
      day == IF s.day <= 0 THEN 1 ELSE s.day
  IN  month \in 1..12 /\ day <= DaysInMonth(year, month)

\* another bit of the flag tested
HasInvalidBit_wrongbit(flag) == (flag \div 2) % 2 = 1

\* flag & 0x20 != 0
HasInvalidBit(flag) == (flag \div FlagInvalidBit) % 2 = 1

\* the constructor taken to return at the invalid date, before the dispatch
Raised_stop_on_date(s) ==
  IF ~DateOk(s) THEN "none"
  ELSE IF s.flag = FlagLog THEN "TypeError"
  ELSE IF s.flag = FlagHeartbeat THEN "NotImplementedError"
  ELSE "none"

\* the exception GTRecord.__init__ ends with, or "none": parse_device_log calls
\* bytes.replace with str arguments (TypeError), parse_heartbeat raises
Raised(s) ==
  IF s.flag = FlagLog THEN "TypeError"
  ELSE IF s.flag = FlagHeartbeat THEN "NotImplementedError"
  ELSE "none"

\* the kind set by the parse_ method the flag dispatches to
KindOf(s) ==
  IF s.flag = FlagLog THEN "LOG"
  ELSE IF s.flag = FlagHeartbeat THEN "HB"
  ELSE "WP"

\* GTRecord.valid after __init__
ValidOf(s) ==
  /\ DateOk(s)
  /\ ~HasInvalidBit(s.flag)
  /\ ~(KindOf(s) = "WP" /\ s.lat = 0 /\ s.lon = 0)

GTRecord(n, s) ==
  [idx |-> n, valid |-> ValidOf(s), kind |-> KindOf(s), flag |-> s.flag,
   msg |-> IF KindOf(s) = "LOG" THEN s.msg ELSE "", raised |-> Raised(s)]

GTTrack(n, reclist) == [idx |-> n, records |-> reclist]

Raw(flag, ym, day, lat, lon, msg) ==
  [flag |-> flag, ym |-> ym, day |-> day, lat |-> lat, lon |-> lon, msg |-> msg]

\* raw records the device may store
WPok == Raw(6, 19, 15, 377749000, -1224194000, "")
WPzero == Raw(6, 19, 15, 0, 0, "")
WPflag == Raw(36, 19, 15, 377749000, -1224194000, "")
WPdate == Raw(6, 16, 15, 377749000, -1224194000, "")
LOGreset == Raw(FlagLog, 19, 15, 0, 0, "RESET COUNTER")
LOGother == Raw(FlagLog, 19, 15, 0, 0, "POWER ON")
HB == Raw(FlagHeartbeat, 19, 15, 0, 0, "")
HBdate == Raw(FlagHeartbeat, 16, 15, 0, 0, "")
\* an erased slot: 32 bytes 0xFF
Erased == Raw(255, 255, 31, -1, -1, "")

Samples == {WPok, WPzero, WPflag, WPdate, LOGreset, LOGother, HB, HBdate}

\* the record stream of the track assembly example
ExampleStream == <<WPok, WPok, LOGreset, WPok, WPok, WPok>>

Streams == [1..MaxRecs -> Samples] \cup {ExampleStream}

\* unpack(">Hb"): the last payload byte is read as a signed byte
Signed8(b) == IF b >= 128 THEN b - 256 ELSE b

\* GT200Dev.count: num = n1*256 + n2
Count(n1, n2byte) == n1 * 256 + Signed8(n2byte)

\* the record stored at flash position p (1-based); slots never written are erased
RecordAt(p) == IF p <= Len(stored) THEN stored[p] ELSE Erased

\* flash_read(rpos * 0x1000): the records of block r
BlockRecords(r) == [k \in 1..RecsPerBlock |-> RecordAt((r - 1) * RecsPerBlock + k)]

\* all_records, line 266: the scan ends after this record
EndByCount(nread, nall) == nread >= nall

\* all_tracks, lines 275-281: the loop body for one record yielded by all_records
Consume(rec, st) ==
  LET cl == IF rec.kind = "WP" THEN Append(st.curlist, rec) ELSE st.curlist
  IN  IF rec.kind = "LOG" /\ rec.msg = "RESET COUNTER" /\ cl # <<>>
      THEN [idx |-> st.idx + 1, curlist |-> <<>>,
            tracks |-> Append(st.tracks, GTTrack(st.idx, cl))]
      ELSE [idx |-> st.idx, curlist |-> cl, tracks |-> st.tracks]

\* the flush made without testing the pending list
FinalFlush_always(tr, n, cl) == Append(tr, GTTrack(n, cl))

\* all_tracks, lines 282-283: the flush at the end of the stream
FinalFlush(tr, n, cl) == IF cl # <<>> THEN Append(tr, GTTrack(n, cl)) ELSE tr

(***************************************************************************)
(* GT200Dev.all_tracks driving GT200Dev.all_records                        *)
(***************************************************************************)
AllTracksStart ==
  /\ pc = "idle"
  /\ op' = "all_tracks"
  /\ stored' \in Streams
  /\ \E n2byte \in (0..MaxRecs) \cup {Len(stored'), 255}, resp \in {"OK", "ERR"} :
       /\ num_rec_all' = IF resp = "ERR" THEN 0 ELSE Count(0, n2byte)
       /\ wire' = <<Exchange("count", 0, resp)>>
       /\ Outcome(resp, "rec_read")
  /\ idx' = 0
  /\ curlist' = <<>>
  /\ tracks' = <<>>
  /\ rpos' = 0
  /\ buf' = <<>>
  /\ bi' = 0
  /\ num_rec_read' = 0
  /\ decoded' = <<>>
  /\ yielded' = <<>>
  /\ UNCHANGED <<model_info, purgeVars>>
  /\ UNCHANGED frameVars

\* lines 259-260
AR_ReadBlock ==
  /\ pc = "rec_read"
  /\ \E resp \in {"OK", "ERR"} :
       /\ Send("flash_read", FlashPos(rpos + 1), resp)
       /\ Outcome(resp, "rec_decode")
       /\ buf' = IF resp = "ERR" THEN buf ELSE BlockRecords(rpos + 1)
  /\ rpos' = rpos + 1
  /\ bi' = 0
  /\ UNCHANGED <<model_info, op, purgeVars, stored, num_rec_all, num_rec_read,
                 decoded, yielded, idx, curlist, tracks>>
  /\ UNCHANGED frameVars

\* lines 262-268, and the body of the loop of all_tracks for a yielded record
AR_Record ==
  /\ pc = "rec_decode"
  /\ LET record == GTRecord(num_rec_read, buf[bi + 1])
         st == [idx |-> idx, curlist |-> curlist, tracks |-> tracks]
         nst == IF record.valid THEN Consume(record, st) ELSE st
     IN  /\ decoded' = Append(decoded, num_rec_read)
         /\ IF record.raised # "none"
            THEN /\ pc' = "failed"
                 /\ err' = record.raised
                 /\ UNCHANGED <<num_rec_read, bi, yielded, idx, curlist, tracks>>
            ELSE /\ yielded' = IF record.valid THEN Append(yielded, record) ELSE yielded
                 /\ idx' = nst.idx
                 /\ curlist' = nst.curlist
                 /\ tracks' = nst.tracks
                 /\ num_rec_read' = num_rec_read + 1
                 /\ bi' = bi + 1
                 /\ pc' = IF EndByCount(num_rec_read + 1, num_rec_all) THEN "flush"
                          ELSE IF bi + 1 < Len(buf) THEN "rec_decode"
                          ELSE "rec_read"
                 /\ UNCHANGED err
  /\ UNCHANGED <<model_info, op, purgeVars, wire, stored, num_rec_all, rpos, buf>>
  /\ UNCHANGED frameVars

\* lines 282-283
AT_Flush ==
  /\ pc = "flush"
  /\ tracks' = FinalFlush(tracks, idx, curlist)
  /\ pc' = "done"
  /\ UNCHANGED <<model_info, op, purgeVars, wire, stored, num_rec_all, num_rec_read,
                 rpos, buf, bi, decoded, yielded, idx, curlist, err>>
  /\ UNCHANGED frameVars

(***************************************************************************)
(* The command framer: write_cmd and read_resp on the byte transport.      *)
(* Bytes are numbers 0..255; a transport call is logged as an event.       *)
(***************************************************************************)
Take(q, n) == SubSeq(q, 1, IF n < Len(q) THEN n ELSE Len(q))

Drop(q, n) == SubSeq(q, n + 1, Len(q))

RECURSIVE Sum(_)
Sum(q) == IF q = <<>> THEN 0 ELSE q[1] + Sum(Tail(q))

\* x ^ 0xff
Xor255(x) == (x \div 256) * 256 + (255 - (x % 256))

\* x & 0xff
And255(x) == x % 256

Checksum_noinc(prefix) == And255(Xor255(Sum(prefix)))

\* write_cmd, lines 71-74: the checksum over cmd1 + cmd2[:7]
Checksum(prefix) == And255(Xor255(Sum(prefix)) + 1)

\* write_cmd, line 75-77: the 16 bytes written
Framed(cmd1, cmd2) ==
  cmd1 \o SubSeq(cmd2, 1, 7) \o <<Checksum(cmd1 \o SubSeq(cmd2, 1, 7))>>

\* byte k (0 = least significant) of the big-endian packing of x
Byte(x, k) == (x \div (256 ^ k)) % 256

Signed16_unsigned(hi, lo) == hi * 256 + lo

\* struct "h": signed big-endian 16-bit value of two bytes
Signed16(hi, lo) == IF hi >= 128 THEN hi * 256 + lo - 65536 ELSE hi * 256 + lo

Ev(ev, data, args) == [ev |-> ev, data |-> data, args |-> args]

Ret(kind, val) == [kind |-> kind, val |-> val]

\* unpack(">" + fmt, resp) for the formats the session uses
Unpack(fmt, resp) ==
  CASE fmt = "Hb" ->
         IF Len(resp) = 3
         THEN Ret("fields", <<resp[1] * 256 + resp[2], Signed8(resp[3])>>)
         ELSE Ret("raise", "struct.error")
    [] fmt = "IbbHH" ->
         IF Len(resp) = 10
         THEN Ret("fields", <<((resp[1] * 256 + resp[2]) * 256 + resp[3]) * 256 + resp[4],
                             Signed8(resp[5]), Signed8(resp[6]),
                             resp[7] * 256 + resp[8], resp[9] * 256 + resp[10]>>)
         ELSE Ret("raise", "struct.error")

\* read_resp(fmt) on the received bytes: the transport reads it makes, what it
\* returns or raises, and the bytes it leaves unread
ReadResp(bytes, fmt) ==
  LET recv == Take(bytes, 3)
      hdr == Ev("read", recv, <<3>>)
      sz == Signed16(recv[2], recv[3])
      resp == Take(Drop(bytes, 3), sz)
  IN  IF recv[1] # 147
      THEN [events |-> <<hdr>>, result |-> Ret("raise", "ProtocolError"),
            rest |-> Drop(bytes, 3)]
      ELSE IF sz < 0
           THEN [events |-> <<hdr>>, result |-> Ret("none", <<>>),
                 rest |-> Drop(bytes, 3)]
           ELSE [events |-> <<hdr, Ev("read", resp, <<sz>>)>>,
                 result |-> IF fmt = "none" THEN Ret("bytes", resp) ELSE Unpack(fmt, resp),
                 rest |-> Drop(bytes, 3 + sz)]

WriteCmd_noflush(cmd1, cmd2) ==
  <<Ev("write", Framed(cmd1, cmd2), <<cmd1, cmd2>>)>>

\* write_cmd: flush, then one write of the framed command
WriteCmd(cmd1, cmd2) ==
  <<Ev("flush", <<>>, <<>>), Ev("write", Framed(cmd1, cmd2), <<cmd1, cmd2>>)>>

\* position in a call log of the last write, 0 if there is none
LastWrite(log) ==
  LET ks == {k \in 1..Len(log) : log[k].ev = "write"}
  IN  IF ks = {} THEN 0 ELSE CHOOSE k \in ks : \A j \in ks : j <= k

\* the log keeps the calls made after the write of the previous command
Window(log) == IF LastWrite(log) = 0 THEN <<>> ELSE Drop(log, LastWrite(log))

Zero8 == <<0, 0, 0, 0, 0, 0, 0, 0>>

\* answers the device may give to a command
Responses ==
  { <<0, 0, 0>>,                                   \* header byte is not 0x93
    <<147, 128, 0, 7>>,                            \* size -32768, a byte follows
    <<147, 0, 0>>,                                 \* empty payload
    <<147, 0, 1, 0>>,                              \* b"\x00"
    <<147, 0, 3, 194, 32, 19>>,                    \* checkcode 0xC220, code 0x13
    <<147, 0, 3, 194, 32, 20>>,
    <<147, 0, 3, 194, 32, 21>>,
    <<147, 0, 3, 194, 32, 23>>,
    <<147, 0, 3, 194, 32, 22>>,                    \* unknown model code
    <<147, 0, 3, 0, 0, 23>>,                       \* another checkcode
    <<147, 0, 3, 0, 0, 200>>,                      \* count 200
    <<147, 0, 10, 0, 1, 226, 64, 2, 1, 0, 23, 1, 0>>,
    <<147, 0, 16, 255, 255, 255, 255, 255, 255, 255, 255,
      255, 255, 255, 255, 255, 255, 255, 255>> }

\* one session operation on the transport: write_cmd, the device's answer,
\* then the reads; the calls are appended to the log
Transport(by, cmd1, cmd2, answer, reads, rest) ==
  /\ pc = "idle"
  /\ op' = by
  /\ io' = Window(io) \o WriteCmd(cmd1, cmd2) \o reads
  /\ rx' = rest
  /\ UNCHANGED <<pc, purgeVars, wire, scanVars>>

\* an operation that returns read_resp() as it is
RawReturn(r) ==
  /\ ret' = IF r.result.kind = "raise" THEN Ret("none", <<>>) ELSE r.result
  /\ err' = IF r.result.kind = "raise" THEN r.result.val ELSE "none"
  /\ UNCHANGED model_info

(***************************************************************************)
(* write_cmd and read_resp called on their own                             *)
(***************************************************************************)
Cmd1Samples ==
  { Zero8,
    <<147, 11, 3, 0, 29, 0, 0, 0>>,
    <<147, 5, 7, 16, 0, 4, 3, 18>>,
    <<255, 255, 255, 255, 255, 255, 255, 255>> }

Cmd2Samples ==
  { Zero8,
    <<52, 86, 0, 0, 0, 0, 0, 0>>,
    <<1, 2, 3, 4, 5, 6, 7, 9>>,
    <<255, 255, 255, 255, 255, 255, 255, 255>> }

\* the calls of the last write_cmd, without the reads that followed it
WritePart(log) == Take(log, LastWrite(log))

write_cmd ==
  \E cmd1 \in Cmd1Samples, cmd2 \in Cmd2Samples :
    /\ pc = "idle"
    /\ op' = "write_cmd"
    /\ io' = WriteCmd(cmd1, cmd2)
    /\ rx' = <<>>
    /\ ret' = Ret("none", <<>>)
    /\ err' = "none"
    /\ UNCHANGED <<model_info, pc, purgeVars, wire, scanVars>>

\* read_resp() on the answer the device has delivered
read_resp ==
  \E answer \in Responses :
    LET r == ReadResp(answer, "none")
    IN  /\ pc = "idle"
        /\ op' = "read_resp"
        /\ io' = WritePart(io) \o r.events
        /\ rx' = r.rest
        /\ RawReturn(r)
        /\ UNCHANGED <<pc, purgeVars, wire, scanVars>>

\* read_resp(fmt=...) on the answer the device has delivered
read_resp_fmt ==
  \E answer \in Responses, fmt \in {"Hb", "IbbHH"} :
    LET r == ReadResp(answer, fmt)
    IN  /\ pc = "idle"
        /\ op' = "read_resp_fmt"
        /\ io' = WritePart(io) \o r.events
        /\ rx' = r.rest
        /\ RawReturn(r)
        /\ UNCHANGED <<pc, purgeVars, wire, scanVars>>

NextFramer ==
  \/ write_cmd
  \/ read_resp
  \/ read_resp_fmt

(***************************************************************************)
(* The session operations, byte by byte                                    *)
(***************************************************************************)
NmeaSwitch(mode, answer) ==
  /\ Transport("nmea_switch", <<147, 1, 1, mode, 0, 0, 0, 0>>, Zero8, answer,
               <<Ev("read", Take(answer, 1), <<1>>)>>, Drop(answer, 1))
  /\ ret' = Ret("none", <<>>)
  /\ err' = "none"

nmea_switch ==
  \E mode \in {0, 3}, answer \in Responses :
    /\ NmeaSwitch(mode, answer)
    /\ UNCHANGED model_info

\* identify assigning the entry of the model the device reports
IdentifyInfo_sets(info, fields) ==
  IF fields[4] \in DOMAIN MODELS THEN MODELS[fields[4]] ELSE info

\* identify, lines 113-117: the decoded fields are logged, model_info stays
IdentifyInfo(info, fields) == info

Identify(answer) ==
  LET r == ReadResp(answer, "IbbHH")
  IN  /\ Transport("identify", <<147, 10, 0, 0, 0, 0, 0, 0>>, Zero8, answer,
                   r.events, r.rest)
      /\ err' = CASE r.result.kind = "raise" -> r.result.val
                  [] r.result.kind = "none" -> "TypeError"
                  [] OTHER -> "none"
      /\ model_info' = IF r.result.kind = "fields"
                       THEN IdentifyInfo(model_info, r.result.val)
                       ELSE model_info

identify ==
  \E answer \in Responses :
    /\ Identify(answer)
    /\ ret' = Ret("none", <<>>)

ModelResult_nocheck(info, checkcode, model_code) ==
  IF model_code \notin DOMAIN MODELS
  THEN [info |-> info, err |-> "UnknownModel"]
  ELSE [info |-> MODELS[model_code], err |-> "none"]

\* model, lines 124-133: what the decoded answer does to model_info
ModelResult(info, checkcode, model_code) ==
  IF checkcode # CheckCode
  THEN [info |-> info, err |-> "none"]
  ELSE IF model_code \notin DOMAIN MODELS
       THEN [info |-> info, err |-> "UnknownModel"]
       ELSE [info |-> MODELS[model_code], err |-> "none"]

model ==
  \E answer \in Responses :
    LET r == ReadResp(answer, "Hb")
    IN  /\ Transport("model", <<147, 5, 4, 0, 3, 1, 159, 0>>, Zero8, answer,
                     r.events, r.rest)
        /\ ret' = Ret("none", <<>>)
        /\ IF r.result.kind # "fields"
           THEN /\ err' = IF r.result.kind = "raise" THEN r.result.val ELSE "TypeError"
                /\ UNCHANGED model_info
           ELSE LET m == ModelResult(model_info, r.result.val[1], r.result.val[2])
                IN  /\ err' = m.err
                    /\ model_info' = m.info

count ==
  \E answer \in Responses :
    LET r == ReadResp(answer, "Hb")
    IN  /\ Transport("count", <<147, 11, 3, 0, 29, 0, 0, 0>>, Zero8, answer,
                     r.events, r.rest)
        /\ IF r.result.kind # "fields"
           THEN /\ err' = IF r.result.kind = "raise" THEN r.result.val ELSE "TypeError"
                /\ ret' = Ret("none", <<>>)
           ELSE /\ err' = "none"
                /\ ret' = Ret("int", r.result.val[1] * 256 + r.result.val[2])
        /\ UNCHANGED model_info

flash_read ==
  \E pos \in {1193046}, size \in {16, 4096}, answer \in Responses :
    LET r == ReadResp(answer, "none")
    IN  /\ Transport("flash_read",
                     <<147, 5, 7, Byte(size, 1), Byte(size, 0), 4, 3, Byte(pos, 2)>>,
                     <<Byte(pos, 1), Byte(pos, 0), 0, 0, 0, 0, 0, 0>>,
                     answer, r.events, r.rest)
        /\ RawReturn(r)

flash_write_purge ==
  \E pos \in {1193046}, answer \in Responses :
    LET r == ReadResp(answer, "none")
    IN  /\ Transport("flash_write_purge",
                     <<147, 6, 7, 0, 0, 4, 32, Byte(pos, 2)>>,
                     <<Byte(pos, 1), Byte(pos, 0), 0, 0, 0, 0, 0, 0>>,
                     answer, r.events, r.rest)
        /\ RawReturn(r)

unk_write1 ==
  \E p1 \in {255}, answer \in Responses :
    LET r == ReadResp(answer, "none")
    IN  /\ Transport("unk_write1", <<147, 6, 4, 0, p1, 1, 6, 0>>, Zero8,
                     answer, r.events, r.rest)
        /\ RawReturn(r)

unk_write2 ==
  \E p1 \in {4660}, answer \in Responses :
    LET r == ReadResp(answer, "none")
    IN  /\ Transport("unk_write2", <<147, 5, 4, Byte(p1, 1), Byte(p1, 0), 1, 5, 0>>,
                     Zero8, answer, r.events, r.rest)
        /\ RawReturn(r)

unk_purge1 ==
  \E p1 \in {29}, answer \in Responses :
    LET r == ReadResp(answer, "none")
    IN  /\ Transport("unk_purge1", <<147, 12, 0, p1, 0, 0, 0, 0>>, Zero8,
                     answer, r.events, r.rest)
        /\ RawReturn(r)

NextSession ==
  \/ nmea_switch
  \/ identify
  \/ model
  \/ count
  \/ flash_read
  \/ flash_write_purge
  \/ unk_write1
  \/ unk_write2
  \/ unk_purge1

(***************************************************************************)
(* gt2gpx: the command-line flows purge and get                            *)
(***************************************************************************)
MODE_CONFIGURE == 3

\* answers of the device to identify: any answer, and well-formed ones that
\* report the model codes 0x13 and 0x17
IdentifyAnswers ==
  Responses \cup { <<147, 0, 10, 0, 1, 226, 64, 2, 1, 0, 19, 1, 0>> }

\* _init_device, line 66, on the session just constructed
InitDevice_NmeaSwitch ==
  /\ op = "none"
  /\ \E answer \in Responses : NmeaSwitch(MODE_CONFIGURE, answer)
  /\ UNCHANGED model_info

\* _init_device, line 67
InitDevice_Identify ==
  /\ op = "nmea_switch"
  /\ \E answer \in IdentifyAnswers : Identify(answer)
  /\ ret' = Ret("none", <<>>)

\* the session _init_device has returned, not used yet
DeviceReady == op = "identify" /\ pc = "idle" /\ err = "none"

\* purge, line 95
Purge_Run ==
  /\ DeviceReady
  /\ PurgeAll120Start

\* download_track, line 78
Download_Run ==
  /\ DeviceReady
  /\ AllTracksStart

\* the with statement closes the session when its body ends or raises
Close ==
  /\ op \in {"purge_all_120", "all_tracks"}
  /\ pc \in {"done", "failed"}
  /\ pc' = "closed"
  /\ UNCHANGED <<model_info, op, purgeVars, wire, scanVars, err, frameVars>>

NextCli ==
  \/ InitDevice_NmeaSwitch
  \/ InitDevice_Identify
  \/ Purge_Run
  \/ Download_Run
  \/ P120_Scan
  \/ P120_Wait
  \/ P120_Write1
  \/ P120_Erase
  \/ P120_Group1
  \/ P120_FinalWait
  \/ P120_Group2
  \/ DeviceHang
  \/ AR_ReadBlock
  \/ AR_Record
  \/ AT_Flush
  \/ Close

(***************************************************************************)
(* Specifications                                                          *)
(***************************************************************************)
\* GT200Dev.__init__: model_info = MODELS[0x13]
Init ==
  /\ model_info = MODELS[19]
  /\ pc = "idle"
  /\ op = "none"
  /\ n_blocks = 0
  /\ send_1d = FALSE
  /\ purge_flag = FALSE
  /\ i = 0
  /\ flash = <<>>
  /\ budget = MaxBusy
  /\ stuck = FALSE
  /\ wire = <<>>
  /\ stored = <<>>
  /\ num_rec_all = 0
  /\ num_rec_read = 0
  /\ rpos = 0
  /\ buf = <<>>
  /\ bi = 0
  /\ decoded = <<>>
  /\ yielded = <<>>
  /\ idx = 0
  /\ curlist = <<>>
  /\ tracks = <<>>
  /\ err = "none"
  /\ rx = <<>>
  /\ io = <<Ev("flush", <<>>, <<>>)>>
  /\ ret = Ret("none", <<>>)

Next ==
  \/ Model
  \/ PurgeAll120Start
  \/ P120_Scan
  \/ P120_Wait
  \/ P120_Write1
  \/ P120_Erase
  \/ P120_Group1
  \/ P120_FinalWait
  \/ P120_Group2
  \/ PurgeAllGt900Start
  \/ G900_Scan
  \/ G900_Write1
  \/ G900_Erase
  \/ G900_Wait
  \/ DeviceHang
  \/ AllTracksStart
  \/ AR_ReadBlock
  \/ AR_Record
  \/ AT_Flush

Spec == Init /\ [][Next]_vars

TypeOK ==
  /\ pc \in {"idle", "failed", "done", "closed", "p120_top", "p120_write1", "p120_erase",
             "p120_a1d", "p120_a1e", "p120_a1f", "p120_wait", "p120_b1d",
             "p120_b1e", "p120_b1f", "g900_top", "g900_write1", "g900_erase",
             "g900_wait", "rec_read", "rec_decode", "flush"}
  /\ budget \in 0..MaxBusy


\* the program keeps running: every enabled step is eventually taken
FairSpec == Spec /\ WF_vars(Next)

(***************************************************************************)
(* The purge scan example: block count 600, blocks 500..600 blank,         *)
(* blocks 1..499 non-blank, a device that is never busy.                   *)
(***************************************************************************)
ExampleFlash == [b \in 1..600 |-> IF b >= 500 THEN "FF" ELSE "DATA"]

\* the state purge_all_120 starts its loop in, for a model_info with 600 blocks
InitExample ==
  /\ \E s1d \in BOOLEAN :
       /\ model_info = <<"example", 600, s1d>>
       /\ send_1d = s1d
  /\ pc = "p120_top"
  /\ op = "purge_all_120"
  /\ n_blocks = model_info[2]
  /\ purge_flag = FALSE
  /\ i = ScanStart120(n_blocks)
  /\ flash = ExampleFlash
  /\ budget = 0
  /\ stuck = FALSE
  /\ wire = <<>>
  /\ stored = <<>>
  /\ num_rec_all = 0
  /\ num_rec_read = 0
  /\ rpos = 0
  /\ buf = <<>>
  /\ bi = 0
  /\ decoded = <<>>
  /\ yielded = <<>>
  /\ idx = 0
  /\ curlist = <<>>
  /\ tracks = <<>>
  /\ err = "none"
  /\ rx = <<>>
  /\ io = <<Ev("flush", <<>>, <<>>)>>
  /\ ret = Ret("none", <<>>)

NextExample ==
  \/ P120_Scan
  \/ P120_Wait
  \/ P120_Write1
  \/ P120_Erase
  \/ P120_Group1
  \/ P120_FinalWait
  \/ P120_Group2

SpecExample == InitExample /\ [][NextExample]_vars

\* write_cmd and read_resp called in any order
SpecFramer == Init /\ [][NextFramer]_vars

\* any sequence of session operations on a freshly constructed session
SpecSession == Init /\ [][NextSession]_vars

\* one run of the command-line tool
SpecCli == Init /\ [][NextCli]_vars

(***************************************************************************)
(* Vocabulary of the properties                                            *)
(***************************************************************************)
IsPurge == op \in {"purge_all_120", "purge_all_gt900"}

Erases == Blocks("flash_write_purge")
Reads == Blocks("flash_read")

SeqRange(q) == {q[k] : k \in 1..Len(q)}

IsPrefix(p, q) == Len(p) <= Len(q) /\ \A k \in 1..Len(p) : p[k] = q[k]

\* the blocks the running purge visits
ScanRange == IF op = "purge_all_120" THEN 1..n_blocks ELSE 1..(n_blocks - 1)

\* the highest block of the scan whose first 16 bytes are not all 0xFF, 0 if none
TopDirty ==
  LET dirty == {b \in ScanRange : flash[b] # "FF"}
  IN  IF dirty = {} THEN 0 ELSE CHOOSE b \in dirty : \A c \in dirty : c <= b

\* position in wire of the last command cmd, 0 if there is none
LastIndex(cmd) ==
  LET ks == {k \in 1..Len(wire) : wire[k].cmd = cmd}
  IN  IF ks = {} THEN 0 ELSE CHOOSE k \in ks : \A j \in ks : j <= k

IsZeroPoll(e) == e.cmd = "unk_write2" /\ e.arg = 1 /\ e.resp = "ZERO"

IsPurge1(e, opcode) == e.cmd = "unk_purge1" /\ e.arg = opcode


(***************************************************************************)
(* Properties of the purge procedures                                      *)
(***************************************************************************)
ExampleRun == op = "purge_all_120" /\ n_blocks = 600 /\ flash = ExampleFlash

\* C1 as stated: in the example run (600 blocks, 500..600 blank, 1..499
\* non-blank) the erase commands are exactly those of blocks 500, 499, ..., 1,
\* one each, in that order, and blocks 600..501 get no erase command.
C1_Original ==
  (ExampleRun /\ pc = "done") => Erases = RangeDown(500, 0)

\* C1 amended: in the example run block 500 is blank and is skipped like the
\* blocks above it: blocks 600..500 are read and get no erase command, then
\* blocks 499, 498, ..., 1 are erased in descending order, one
\* flash_write_purge each, and none of them is read after block 499.
C1_ExampleScan ==
  ExampleRun =>
    /\ IsPrefix(Erases, RangeDown(499, 0))
    /\ IsPrefix(Reads, RangeDown(600, 498))
    /\ (pc = "done" => Erases = RangeDown(499, 0) /\ Reads = RangeDown(600, 498))

C1_Witness ==
  ExampleRun /\ pc = "done" /\ Len(Erases) = 499 /\ Len(Reads) = 102

\* C2: in both purge procedures a block of the scan is erased only if it is
\* at or below the highest non-blank block of the scan, blocks are read only
\* at or above that block, no flash_read follows the flash_read that found the
\* non-blank block, and a completed scan has erased exactly the blocks at or
\* below it and read exactly the blocks at or above it.
C2_EraseIffBelowTopDirty ==
  IsPurge =>
    /\ SeqRange(Erases) \subseteq {b \in ScanRange : b <= TopDirty}
    /\ SeqRange(Reads) \subseteq {b \in ScanRange : b >= TopDirty}
    /\ \A k \in 1..Len(wire) :
         (wire[k].cmd = "flash_read" /\ wire[k].resp \notin {"FF", "ERR"})
           => \A j \in (k + 1)..Len(wire) : wire[j].cmd # "flash_read"
    /\ (pc = "done" =>
          /\ SeqRange(Erases) = {b \in ScanRange : b <= TopDirty}
          /\ SeqRange(Reads) = {b \in ScanRange : b >= TopDirty})

C2_Witness ==
  /\ IsPurge /\ pc = "done"
  /\ TopDirty > 1
  /\ TopDirty + 1 \in ScanRange
  /\ \E b \in 1..(TopDirty - 1) : flash[b] = "FF" /\ b \in SeqRange(Erases)

\* the number of unk_purge1 commands of one finalization group
GroupSize == IF send_1d THEN 3 ELSE 2

\* C3 as stated: in purge_all_120, when a block was erased, every unk_purge1
\* command comes after an unk_write2(1) poll that was issued after the last
\* erase and returned the single byte 0x00.
C3_Original ==
  (op = "purge_all_120" /\ LastIndex("flash_write_purge") > 0) =>
    \A k \in 1..Len(wire) :
      wire[k].cmd = "unk_purge1" =>
        \E j \in (LastIndex("flash_write_purge") + 1)..(k - 1) : IsZeroPoll(wire[j])

\* C3 amended: in purge_all_120, when a block was erased, the first
\* finalization group (unk_purge1 0x1d if the model requires it, 0x1e, 0x1f)
\* is sent right after the last erase with no poll in between, and every
\* later unk_purge1 command comes after an unk_write2(1) poll that was issued
\* after that group and returned the single byte 0x00.
C3_SecondGroupAfterZeroPoll ==
  (op = "purge_all_120" /\ LastIndex("flash_write_purge") > 0) =>
    LET e == LastIndex("flash_write_purge")
    IN  \A k \in 1..Len(wire) :
          wire[k].cmd = "unk_purge1" =>
            \/ /\ k \in (e + 1)..(e + GroupSize)
               /\ \A j \in (e + 1)..k : wire[j].cmd = "unk_purge1"
            \/ /\ k > e + GroupSize
               /\ \A j \in (e + 1)..(e + GroupSize) : wire[j].cmd = "unk_purge1"
               /\ \E j \in (e + GroupSize + 1)..(k - 1) : IsZeroPoll(wire[j])

C3_Witness ==
  /\ op = "purge_all_120" /\ pc = "done"
  /\ LastIndex("flash_write_purge") > 0
  /\ \E k \in 1..Len(wire) : wire[k].cmd = "unk_write2" /\ wire[k].resp = "BUSY"
                             /\ k > LastIndex("flash_write_purge")

\* C4: in both purge procedures every flash_write_purge directly follows a
\* completed unk_write1(0) exchange, the command after an unk_write1(0) is
\* always a flash_write_purge, after an answered unk_write1(0) the session is
\* about to erase the block the scan is at, successive erases go down by one
\* block, and a completed run does not end with unk_write1.
C4_Write1ThenErase ==
  IsPurge =>
    /\ \A k \in 1..Len(wire) :
         /\ wire[k].cmd = "flash_write_purge" =>
              k > 1 /\ wire[k - 1] = Exchange("unk_write1", 0, "OK")
         /\ (wire[k].cmd = "unk_write1" /\ k < Len(wire)) =>
              wire[k + 1].cmd = "flash_write_purge"
         /\ wire[k].cmd = "unk_write1" => wire[k].arg = 0
    /\ (wire # <<>> /\ wire[Len(wire)] = Exchange("unk_write1", 0, "OK")) =>
         /\ pc \in {"p120_erase", "g900_erase"}
         /\ \A k \in 1..Len(Erases) : Erases[k] > i
    /\ \A k \in 1..(Len(Erases) - 1) : Erases[k + 1] = Erases[k] - 1
    /\ Len(Only("unk_write1")) - Len(Erases) \in {0, 1}
    /\ (pc = "done" => Len(Only("unk_write1")) = Len(Erases))

C4_Witness ==
  /\ IsPurge /\ pc = "done" /\ op = "purge_all_gt900"
  /\ Len(Erases) >= 2

\* C5 as stated: every completed purge run of either procedure ends with
\* unk_purge1(0x1e), unk_purge1(0x1f), and unk_purge1(0x1d) comes right
\* before that 0x1e exactly when model_info requires the extra command.
C5_Original ==
  (IsPurge /\ pc = "done") =>
    LET n == Len(wire)
    IN  /\ n >= 2
        /\ IsPurge1(wire[n - 1], 30)
        /\ IsPurge1(wire[n], 31)
        /\ (n >= 3 /\ IsPurge1(wire[n - 2], 29)) <=> model_info[3]

\* C5 amended: every completed run of purge_all_120, whether or not a block
\* was erased, ends with unk_purge1(0x1e), unk_purge1(0x1f), and
\* unk_purge1(0x1d) comes right before that 0x1e exactly when model_info
\* requires the extra command; purge_all_gt900 sends no unk_purge1 command.
C5_Finalization ==
  /\ (op = "purge_all_120" /\ pc = "done") =>
       LET n == Len(wire)
       IN  /\ n >= 2
           /\ IsPurge1(wire[n - 1], 30)
           /\ IsPurge1(wire[n], 31)
           /\ (n >= 3 /\ IsPurge1(wire[n - 2], 29)) <=> model_info[3]
  /\ op = "purge_all_gt900" => Only("unk_purge1") = <<>>

C5_Witness ==
  /\ op = "purge_all_120" /\ pc = "done"
  /\ model_info[3]
  /\ Erases = <<>>
  /\ Len(wire) = n_blocks + 3


\* the step adds nothing to the log, or one unk_write2(1) poll
OnlyPollAdded ==
  \/ wire' = wire
  \/ /\ Len(wire') = Len(wire) + 1
     /\ SubSeq(wire', 1, Len(wire)) = wire
     /\ wire'[Len(wire')].cmd = "unk_write2"
     /\ wire'[Len(wire')].arg = 1

\* C6: the busy-wait of the purge procedures has no bound.  A purge run on a
\* device that does not stay busy for ever ends (completed, or failed on a
\* malformed answer); once the device answers no poll with exactly b"\x00"
\* any more (other payload, or None), the run stays in its busy-wait loop for
\* ever: it keeps its position and sends nothing but unk_write2(1) polls.
C6_BusyWaitUnbounded ==
  /\ [](IsPurge => <>(pc \in {"done", "failed"} \/ stuck))
  /\ [](stuck => Waiting)
  /\ [][stuck => (stuck' /\ pc' = pc /\ Waiting' /\ OnlyPollAdded)]_vars

C6_Witness ==
  /\ stuck /\ budget = 0 /\ Waiting
  /\ op = "purge_all_120" /\ pc = "p120_top"
  /\ wire[Len(wire)].cmd = "unk_write2" /\ wire[Len(wire)].resp = "NONE"

(***************************************************************************)
(* Properties of the record scan and of the track assembly                 *)
(***************************************************************************)
TrackSizes == [k \in 1..Len(tracks) |-> Len(tracks[k].records)]

Ended == op = "all_tracks" /\ pc \in {"done", "failed"} /\ err # "ProtocolError"

\* C7 as stated, on its example: for the stored records [WP, WP, LOG "RESET
\* COUNTER", WP, WP, WP] (all waypoints valid, count() = 6) all_tracks ends
\* having yielded exactly two tracks, of 2 and 3 points in that order (one
\* track per run of waypoints delimited by the RESET COUNTER record).
C7_Original ==
  (Ended /\ stored = ExampleStream /\ num_rec_all = 6) => TrackSizes = <<2, 3>>

\* C8 as stated: when count() returns 0, all_records yields no record and
\* all_tracks yields no track.
C8_Original ==
  (op = "all_tracks" /\ num_rec_all = 0) => (yielded = <<>> /\ tracks = <<>>)

\* C9 as stated: the indices given to the decoded records are 0, 1, 2, ... and
\* every decoded record and every yielded record has an index below the
\* total returned by count().
C9_Original ==
  op = "all_tracks" =>
    /\ \A k \in 1..Len(decoded) : decoded[k] = k - 1 /\ decoded[k] < num_rec_all
    /\ \A k \in 1..Len(yielded) : yielded[k].idx < num_rec_all

\* C10: every track yielded by all_tracks holds at least one record, and the
\* tracks yielded carry the indices 0, 1, 2, ... in order.
C10_TracksNonEmpty ==
  \A k \in 1..Len(tracks) :
    /\ Len(tracks[k].records) >= 1
    /\ tracks[k].idx = k - 1

C10_Witness ==
  /\ op = "all_tracks" /\ pc = "done"
  /\ Len(tracks) = 1
  /\ Len(tracks[1].records) = 2
  /\ num_rec_all = 3
  /\ ~ValidOf(stored[1])

(***************************************************************************)
(* Properties of the command framer and of the session operations          *)
(***************************************************************************)
\* the transport reads made since the last command write
ReadsDone == Drop(io, LastWrite(io))

\* C12: read_resp reads exactly 3 header bytes; if the first byte is not 0x93
\* it fails and reads nothing more; if the signed big-endian 16-bit size is
\* negative it returns None and reads no payload byte; otherwise it reads
\* exactly size further bytes and returns them (decoded by the format when
\* one was requested, which fails when the layout does not fit).
C12_ReadResp ==
  op \in {"read_resp", "read_resp_fmt"} =>
    LET hdr == ReadsDone[1]
        size == hdr.data[2] * 256 + hdr.data[3]
    IN  /\ hdr.ev = "read" /\ hdr.args = <<3>> /\ Len(hdr.data) = 3
        /\ IF hdr.data[1] # 147
           THEN Len(ReadsDone) = 1 /\ err = "ProtocolError"
           ELSE IF hdr.data[2] >= 128
                THEN Len(ReadsDone) = 1 /\ err = "none" /\ ret = Ret("none", <<>>)
                ELSE /\ Len(ReadsDone) = 2
                     /\ ReadsDone[2].ev = "read"
                     /\ ReadsDone[2].args = <<size>>
                     /\ Len(ReadsDone[2].data) = size
                     /\ op = "read_resp" =>
                          err = "none" /\ ret = Ret("bytes", ReadsDone[2].data)
                     /\ op = "read_resp_fmt" =>
                          \/ err = "none" /\ ret.kind = "fields"
                          \/ err = "struct.error"

C12_Witness ==
  /\ op = "read_resp"
  /\ ReadsDone = <<Ev("read", <<147, 128, 0>>, <<3>>)>>
  /\ ret = Ret("none", <<>>) /\ err = "none"
  /\ rx = <<7>>

\* C16: for every 8-byte cmd1 and cmd2, write_cmd flushes the transport and
\* then makes exactly one write, of 16 bytes: cmd1, the first 7 bytes of cmd2
\* and a checksum byte cs in 0..255 with (sum of the 15 bytes + cs) mod 256 = 0.
C16_OneFramedWrite ==
  op = "write_cmd" =>
    /\ Len(io) = 2
    /\ io[1].ev = "flush"
    /\ io[2].ev = "write"
    /\ LET sent == io[2].data
           cmd1 == io[2].args[1]
           cmd2 == io[2].args[2]
       IN  /\ Len(sent) = 16
           /\ SubSeq(sent, 1, 8) = cmd1
           /\ SubSeq(sent, 9, 15) = SubSeq(cmd2, 1, 7)
           /\ sent[16] \in 0..255
           /\ (Sum(SubSeq(sent, 1, 15)) + sent[16]) % 256 = 0

C16_Witness ==
  /\ op = "write_cmd"
  /\ io[2].args = <<<<147, 11, 3, 0, 29, 0, 0, 0>>, <<1, 2, 3, 4, 5, 6, 7, 9>>>>
  /\ io[2].data = <<147, 11, 3, 0, 29, 0, 0, 0, 1, 2, 3, 4, 5, 6, 7, 38>>

\* the transport reads logged before the last command write: those made
\* between the previous command write and this one
PrevReads == SelectSeq(Take(io, LastWrite(io) - 1), LAMBDA e : e.ev = "read")

\* a response read in full: the 3-byte header and, when the header is valid
\* and its size is not negative, a second read of the declared size
FullResponse(reads) ==
  /\ Len(reads) >= 1
  /\ reads[1].args = <<3>>
  /\ IF Len(reads[1].data) = 3 /\ reads[1].data[1] = 147 /\ reads[1].data[2] < 128
     THEN Len(reads) = 2 /\ reads[2].args = <<reads[1].data[2] * 256 + reads[1].data[3]>>
     ELSE Len(reads) = 1

\* C11 as stated: in any sequence of session operations, between any two
\* consecutive command writes the session reads the previous command's
\* response, the header and the declared payload.
C11_Original ==
  PrevReads # <<>> => FullResponse(PrevReads)

\* C11: in any sequence of session operations every command write is preceded
\* by a flush of the transport, and between two consecutive command writes
\* the session makes exactly the reads of the previous command: one read of
\* a single byte for nmea_switch, and for every other operation the 3-byte
\* header followed, when the header is valid and its size is not negative,
\* by one read of the declared size.
C11_ReadsBetweenWrites ==
  /\ [](LastWrite(io) > 0 =>
          /\ LastWrite(io) > 1 /\ io[LastWrite(io) - 1].ev = "flush"
          /\ Len(io[LastWrite(io)].data) = 16
          /\ IF op = "nmea_switch"
             THEN Len(ReadsDone) = 1 /\ ReadsDone[1].args = <<1>>
                  /\ Len(ReadsDone[1].data) = 1
             ELSE FullResponse(ReadsDone))
  /\ [][LastWrite(io) > 0 => PrevReads' = ReadsDone]_vars

C11_Witness ==
  /\ op = "count"
  /\ PrevReads = <<Ev("read", <<147>>, <<1>>)>>
  /\ rx = <<>>
  /\ Len(ReadsDone) = 2

\* C13: a session starts with the GT-100 entry as model_info, and model_info
\* is always an entry of the model table.  model() leaves model_info as it
\* was and returns normally when the checkcode of the answer is not 0xC220,
\* leaves it as it was and fails when the checkcode matches and the model
\* code is not in the table, and otherwise sets it to the entry of that code.
C13_ModelInfo ==
  /\ model_info = MODELS[19]
  /\ [](model_info \in {MODELS[c] : c \in DOMAIN MODELS})
  /\ [][(op' = "model" /\ FullResponse(ReadsDone') /\ Len(ReadsDone') = 2
         /\ Len(ReadsDone'[2].data) = 3) =>
          LET p == ReadsDone'[2].data
          IN  IF p[1] * 256 + p[2] # 49696
              THEN model_info' = model_info /\ err' = "none"
              ELSE IF p[3] \notin {19, 20, 21, 23}
                   THEN model_info' = model_info /\ err' = "UnknownModel"
                   ELSE model_info' = MODELS[p[3]] /\ err' = "none"]_vars

C13_Witness ==
  /\ op = "model"
  /\ Len(ReadsDone) = 2
  /\ ReadsDone[2].data = <<194, 32, 23>>
  /\ model_info = MODELS[23]
  /\ Len(PrevReads) = 2
  /\ PrevReads[2].data = <<194, 32, 22>>

\* C17 as stated: for every 3-byte answer payload, count() returns
\* high*256 + low with low the last byte as an unsigned value and high the
\* unsigned value of the two bytes before it, and the result is not negative.
C17_Original ==
  (op = "count" /\ ret.kind = "int") =>
    LET p == ReadsDone[2].data
    IN  /\ ret.val = (p[1] * 256 + p[2]) * 256 + p[3]
        /\ ret.val >= 0

(***************************************************************************)
(* Order of the blocks and of the erases in the purge procedures           *)
(***************************************************************************)
\* the reads and erases of flash blocks, in the order they were sent
Touched == SelectSeq(wire, LAMBDA e : e.cmd \in {"flash_read", "flash_write_purge"})

\* the block the running purge starts from
FirstBlock == IF op = "purge_all_120" THEN n_blocks ELSE n_blocks - 1

\* a block is visited once: read, or erased, or read and erased right after
VisitedDescending(t) ==
  \A k \in 1..(Len(t) - 1) :
    \/ BlockOf(t[k + 1]) < BlockOf(t[k])
    \/ /\ BlockOf(t[k + 1]) = BlockOf(t[k])
       /\ t[k].cmd = "flash_read"
       /\ t[k + 1].cmd = "flash_write_purge"

Completed == IsPurge /\ pc = "done"

\* C18 as stated: both purge variants visit the blocks in strictly descending
\* order, each at most once, the generic one from n_blocks and the legacy one
\* from n_blocks-1, no block outside the range is read or erased, and the
\* lowest block visited is block 1 in one variant and block 0 in the other
\* (here: 1 in the generic variant, which starts at n_blocks, and 0 in the
\* legacy variant, which starts at n_blocks-1).
C18_Original ==
  IsPurge =>
    /\ VisitedDescending(Touched)
    /\ Touched # <<>> => BlockOf(Touched[1]) = FirstBlock
    /\ Completed =>
         BlockOf(Touched[Len(Touched)]) = (IF op = "purge_all_120" THEN 1 ELSE 0)

\* C18: both purge variants visit the blocks in strictly descending order,
\* each read at most once and erased at most once, the generic one from
\* n_blocks and the legacy one from n_blocks-1; every block read or erased is
\* between 1 and the first block, and in both variants the lowest block
\* visited by a completed run is block 1: block 0 is never read or erased.
C18_DescendingToOne ==
  IsPurge =>
    /\ VisitedDescending(Touched)
    /\ Touched # <<>> => BlockOf(Touched[1]) = FirstBlock
    /\ \A k \in 1..Len(Touched) : BlockOf(Touched[k]) \in 1..FirstBlock
    /\ \A j, k \in 1..Len(Reads) : j # k => Reads[j] # Reads[k]
    /\ \A j, k \in 1..Len(Erases) : j # k => Erases[j] # Erases[k]
    /\ Completed => BlockOf(Touched[Len(Touched)]) = 1

C18_Witness ==
  /\ op = "purge_all_gt900" /\ pc = "done"
  /\ Len(Reads) = 2
  /\ Reads[1] = n_blocks - 1
  /\ Len(Erases) >= 2
  /\ Erases[Len(Erases)] = 1

\* C19: in both purge variants, between any two erase commands there is an
\* unk_write2(1) poll answered by the single byte 0x00.  In the generic
\* variant that poll is the command right before the unk_write1 of the next
\* erase; in the legacy variant the command right after an erase that is
\* followed by another is a poll.
C19_PollBetweenErases ==
  IsPurge =>
    \A a, b \in 1..Len(wire) :
      (a < b /\ wire[a].cmd = "flash_write_purge" /\ wire[b].cmd = "flash_write_purge") =>
        /\ \E k \in (a + 1)..(b - 1) : IsZeroPoll(wire[k])
        /\ op = "purge_all_120" =>
             wire[b - 1].cmd = "unk_write1" /\ IsZeroPoll(wire[b - 2])
        /\ op = "purge_all_gt900" =>
             wire[a + 1].cmd = "unk_write2" /\ wire[a + 1].arg = 1

C19_Witness ==
  /\ op = "purge_all_120"
  /\ Len(Erases) = 2
  /\ \E k \in 1..Len(wire) :
       /\ wire[k].cmd = "unk_write2" /\ wire[k].resp = "BUSY"
       /\ LastIndex("flash_write_purge") > k
       /\ \E a \in 1..(k - 1) : wire[a].cmd = "flash_write_purge"

(***************************************************************************)
(* Invalid records, heartbeat records and the invalid bit in the scan      *)
(***************************************************************************)
\* the raw record all_records decodes next
NextRaw == buf[bi + 1]

Decoding == op = "all_tracks" /\ pc = "rec_decode"

\* the conditions under which a record is invalid: the timestamp cannot be
\* built, bit 0x20 of the flag is set, or a waypoint has latitude and
\* longitude 0
InvalidRaw(s) ==
  \/ ~DateOk(s)
  \/ (s.flag \div 32) % 2 = 1
  \/ (s.flag \notin {241, 245} /\ s.lat = 0 /\ s.lon = 0)

\* C14 as stated: a record that is invalid (timestamp construction fails,
\* flag bit 0x20 set, or waypoint at latitude 0 and longitude 0) is not
\* yielded by all_records, is counted against the total, and the scan goes
\* on: it does not abort.  Heartbeat records (flag 0xF5), for which no
\* record is built, are left apart.
C14_Original ==
  [][(Decoding /\ InvalidRaw(NextRaw) /\ NextRaw.flag # 245) =>
       /\ yielded' = yielded
       /\ num_rec_read' = num_rec_read + 1
       /\ pc' # "failed"]_vars

\* C15: decoding a stored record whose flag byte is 0xF5 fails with the
\* unimplemented-kind error whatever its date fields are; nothing is yielded
\* for it, and a scan that has failed yields no record and no track later.
C15_HeartbeatAborts ==
  /\ [][(Decoding /\ NextRaw.flag = 245) =>
          /\ pc' = "failed"
          /\ err' = "NotImplementedError"
          /\ yielded' = yielded
          /\ tracks' = tracks]_vars
  /\ [][(op = "all_tracks" /\ pc = "failed") =>
          (pc' = "failed" /\ yielded' = yielded /\ tracks' = tracks)]_vars

C15_Witness ==
  /\ op = "all_tracks" /\ pc = "failed" /\ err = "NotImplementedError"
  /\ num_rec_all = 3
  /\ stored = <<WPok, HBdate, WPok>>
  /\ Len(yielded) = 1
  /\ curlist # <<>>
  /\ tracks = <<>>

\* C20: all_records yields no record whose flag byte has bit 0x20 set; no
\* LOG record is delivered to all_tracks; all_tracks yields at most one track.
C20_AtMostOneTrack ==
  /\ \A k \in 1..Len(yielded) :
       /\ (yielded[k].flag \div 32) % 2 = 0
       /\ yielded[k].kind # "LOG"
  /\ Len(tracks) <= 1

C20_Witness ==
  /\ op = "all_tracks" /\ pc = "done"
  /\ stored = <<WPok, WPflag, WPok>>
  /\ num_rec_all = 3
  /\ Len(yielded) = 2
  /\ Len(tracks) = 1
  /\ Len(tracks[1].records) = 2

(***************************************************************************)
(* model_info in the command-line flows                                    *)
(***************************************************************************)
\* the model code of the identify answer read last, 0 if it was not decoded
ReportedModel ==
  IF Len(ReadsDone) = 2 /\ Len(ReadsDone[2].data) = 10
  THEN ReadsDone[2].data[7] * 256 + ReadsDone[2].data[8]
  ELSE 0

\* C21: model_info is changed by model() only: nmea_switch, identify,
\* all_records and the purge leave it as it was.  So in a run of the
\* command-line tool (nmea_switch(configure), identify, then purge_all_120
\* or all_tracks, then close) model_info is always the GT-100 entry, and the
\* purge runs with the GT-100 block count and without the extra command:
\* its scan starts at block n_blocks of GT-100 and unk_purge1(0x1d) is never
\* sent, whatever model the device reported to identify.
C21_PurgeWithDefault ==
  /\ [][model_info' # model_info => op' = "model"]_vars
  /\ [](model_info = MODELS[19])
  /\ [](op = "purge_all_120" =>
          /\ n_blocks = NBlocksGT100
          /\ ~send_1d
          /\ Reads # <<>> => Reads[1] = NBlocksGT100
          /\ \A k \in 1..Len(wire) : ~IsPurge1(wire[k], 29))

C21_Witness ==
  /\ op = "purge_all_120" /\ pc = "closed" /\ err = "none"
  /\ ReportedModel = 23
  /\ Reads[1] = NBlocksGT100
  /\ Len(Erases) = NBlocksGT100
  /\ \E k \in 1..Len(wire) : IsPurge1(wire[k], 30)

====
